---- MODULE Spec2Model ----
(***************************************************************************)
(* Model of the jsonplaceholder component (src/src/lib.rs): the generic    *)
(* blocking HTTP GET fetch_json, the serde wire structs with their From    *)
(* conversions, and the fourteen exported endpoint functions of ApiImpl.   *)
(*                                                                         *)
(* A response body is a sequence of JSON tokens (brackets, commas,         *)
(* whitespace, invalid bytes, and atomic values); the body stream hands    *)
(* them out in chunks, and serde_json::from_slice is modelled by a parser  *)
(* over the tokens the read loop has accumulated.                          *)
(***************************************************************************)
EXTENDS Integers, Sequences, FiniteSets, TLC

(* ------------------------------ bounds -------------------------------- *)

\* identifiers (u64 in the source) range over 1..MaxId
MaxId == 2
\* longest JSON array the upstream answers with
MaxItems == 2
\* most tokens one input_stream.read(8192) hands out
MaxChunk == 2

Ids == 1..MaxId

(* --------------------------- Result / Option -------------------------- *)

None == [some |-> FALSE]
Some(x) == [some |-> TRUE, x |-> x]

Ok(x) == [ok |-> TRUE, v |-> x]
Err == [ok |-> FALSE]

(* ------------------------------ JSON ---------------------------------- *)

JNum(n) == [ty |-> "num", n |-> n]
JStr(s) == [ty |-> "str", s |-> s]
JBool(b) == [ty |-> "bool", b |-> b]
JObj(f) == [ty |-> "obj", f |-> f]
JArr(a) == [ty |-> "arr", a |-> a]

LB == [t |-> "lb"]
RB == [t |-> "rb"]
COMMA == [t |-> "comma"]
WS == [t |-> "ws"]
BAD == [t |-> "bad"]
Val(j) == [t |-> "val", v |-> j]

StripWs(toks) == SelectSeq(toks, LAMBDA x : x.t # "ws")

\* value ("," value)*
RECURSIVE IsElems(_)
IsElems(s) ==
    IF Len(s) = 1 THEN s[1].t = "val"
    ELSE IF Len(s) >= 3
         THEN s[1].t = "val" /\ s[2].t = "comma" /\ IsElems(SubSeq(s, 3, Len(s)))
         ELSE FALSE

RECURSIVE Elems(_)
Elems(s) ==
    IF Len(s) <= 1 THEN <<s[1].v>>
    ELSE <<s[1].v>> \o Elems(SubSeq(s, 3, Len(s)))

\* serde_json::from_slice, the syntactic part: one JSON value, whitespace
\* allowed around tokens, anything else (empty input, invalid bytes, an
\* unclosed array, trailing characters) is an error
ParseJson(bytes) ==
    LET s == StripWs(bytes) IN
    IF Len(s) = 1 /\ s[1].t = "val" THEN Ok(s[1].v)
    ELSE IF Len(s) >= 2 /\ s[1].t = "lb" /\ s[Len(s)].t = "rb"
         THEN LET mid == SubSeq(s, 2, Len(s) - 1) IN
              IF Len(mid) = 0 THEN Ok(JArr(<<>>))
              ELSE IF IsElems(mid) THEN Ok(JArr(Elems(mid)))
              ELSE Err
         ELSE Err

(* ------------------------- wire structs (serde) ----------------------- *)

\* a required field of type u64 / String / bool (unknown fields are ignored)
HasU64(o, k) == k \in DOMAIN o /\ o[k].ty = "num" /\ o[k].n >= 0
HasStr(o, k) == k \in DOMAIN o /\ o[k].ty = "str"
HasBool(o, k) == k \in DOMAIN o /\ o[k].ty = "bool"

GeoSerde(j) ==
    IF j.ty = "obj" /\ HasStr(j.f, "lat") /\ HasStr(j.f, "lng")
    THEN Ok([lat |-> j.f.lat.s, lng |-> j.f.lng.s])
    ELSE Err

AddressSerde(j) ==
    IF /\ j.ty = "obj"
       /\ HasStr(j.f, "street") /\ HasStr(j.f, "suite") /\ HasStr(j.f, "city")
       /\ HasStr(j.f, "zipcode")
       /\ "geo" \in DOMAIN j.f /\ GeoSerde(j.f.geo).ok
    THEN Ok([street |-> j.f.street.s, suite |-> j.f.suite.s, city |-> j.f.city.s,
             zipcode |-> j.f.zipcode.s, geo |-> GeoSerde(j.f.geo).v])
    ELSE Err

CompanySerde(j) ==
    IF j.ty = "obj" /\ HasStr(j.f, "name") /\ HasStr(j.f, "catchPhrase") /\ HasStr(j.f, "bs")
    THEN Ok([name |-> j.f.name.s, catch_phrase |-> j.f.catchPhrase.s, bs |-> j.f.bs.s])
    ELSE Err

PostSerde(j) ==
    IF /\ j.ty = "obj"
       /\ HasU64(j.f, "id") /\ HasU64(j.f, "userId")
       /\ HasStr(j.f, "title") /\ HasStr(j.f, "body")
    THEN Ok([id |-> j.f.id.n, user_id |-> j.f.userId.n,
             title |-> j.f.title.s, body |-> j.f.body.s])
    ELSE Err

UserSerde(j) ==
    IF /\ j.ty = "obj"
       /\ HasU64(j.f, "id") /\ HasStr(j.f, "name") /\ HasStr(j.f, "username")
       /\ HasStr(j.f, "email") /\ HasStr(j.f, "phone") /\ HasStr(j.f, "website")
       /\ "company" \in DOMAIN j.f /\ CompanySerde(j.f.company).ok
       /\ "address" \in DOMAIN j.f /\ AddressSerde(j.f.address).ok
    THEN Ok([id |-> j.f.id.n, name |-> j.f.name.s, username |-> j.f.username.s,
             email |-> j.f.email.s, phone |-> j.f.phone.s, website |-> j.f.website.s,
             company |-> CompanySerde(j.f.company).v,
             address |-> AddressSerde(j.f.address).v])
    ELSE Err

CommentSerde(j) ==
    IF /\ j.ty = "obj"
       /\ HasU64(j.f, "id") /\ HasU64(j.f, "postId")
       /\ HasStr(j.f, "name") /\ HasStr(j.f, "email") /\ HasStr(j.f, "body")
    THEN Ok([id |-> j.f.id.n, post_id |-> j.f.postId.n, name |-> j.f.name.s,
             email |-> j.f.email.s, body |-> j.f.body.s])
    ELSE Err

AlbumSerde(j) ==
    IF j.ty = "obj" /\ HasU64(j.f, "id") /\ HasU64(j.f, "userId") /\ HasStr(j.f, "title")
    THEN Ok([id |-> j.f.id.n, user_id |-> j.f.userId.n, title |-> j.f.title.s])
    ELSE Err

PhotoSerde(j) ==
    IF /\ j.ty = "obj"
       /\ HasU64(j.f, "id") /\ HasU64(j.f, "albumId")
       /\ HasStr(j.f, "title") /\ HasStr(j.f, "url") /\ HasStr(j.f, "thumbnailUrl")
    THEN Ok([id |-> j.f.id.n, album_id |-> j.f.albumId.n, title |-> j.f.title.s,
             url |-> j.f.url.s, thumbnail_url |-> j.f.thumbnailUrl.s])
    ELSE Err

TodoSerde(j) ==
    IF /\ j.ty = "obj"
       /\ HasU64(j.f, "id") /\ HasU64(j.f, "userId")
       /\ HasStr(j.f, "title") /\ HasBool(j.f, "completed")
    THEN Ok([id |-> j.f.id.n, user_id |-> j.f.userId.n,
             title |-> j.f.title.s, completed |-> j.f.completed.b])
    ELSE Err

\* <T as Deserialize>::deserialize for the six wire structs
DeserializeOne(T, j) ==
    CASE T = "Post" -> PostSerde(j)
      [] T = "Comment" -> CommentSerde(j)
      [] T = "Album" -> AlbumSerde(j)
      [] T = "Photo" -> PhotoSerde(j)
      [] T = "Todo" -> TodoSerde(j)
      [] T = "User" -> UserSerde(j)

\* Vec<T>: a JSON array every element of which deserializes; one bad
\* element fails the whole vector
DeserializeVec(T, j) ==
    IF j.ty = "arr" /\ \A i \in 1..Len(j.a) : DeserializeOne(T, j.a[i]).ok
    THEN Ok([i \in 1..Len(j.a) |-> DeserializeOne(T, j.a[i]).v])
    ELSE Err

\* serde_json::from_slice::<T>(&bytes).map_err(|_| ())
FromSlice(T, isVec, bytes) ==
    LET p == ParseJson(bytes) IN
    IF ~p.ok THEN Err
    ELSE IF isVec THEN DeserializeVec(T, p.v) ELSE DeserializeOne(T, p.v)

(* ---------------------- domain mapping (From impls) ------------------- *)

GeoFrom(g) == [lat |-> g.lat, lng |-> g.lng]

AddressFrom(a) ==
    [street |-> a.street, suite |-> a.suite, city |-> a.city,
     zipcode |-> a.zipcode, geo |-> GeoFrom(a.geo)]

CompanyFrom(c) == [name |-> c.name, catch_phrase |-> c.catch_phrase, bs |-> c.bs]

\* a From impl that mixes up the two identifiers
PostFromSwapped(p) == [id |-> p.user_id, user_id |-> p.id, title |-> p.title, body |-> p.body]

PostFrom(p) == [id |-> p.id, user_id |-> p.user_id, title |-> p.title, body |-> p.body]

UserFrom(u) ==
    [username |-> u.username, id |-> u.id, name |-> u.name, email |-> u.email,
     phone |-> u.phone, website |-> u.website,
     company |-> CompanyFrom(u.company), address |-> AddressFrom(u.address)]

CommentFrom(c) ==
    [id |-> c.id, post_id |-> c.post_id, name |-> c.name, email |-> c.email, body |-> c.body]

AlbumFrom(a) == [id |-> a.id, user_id |-> a.user_id, title |-> a.title]

PhotoFrom(p) ==
    [id |-> p.id, album_id |-> p.album_id, thumbnail_url |-> p.thumbnail_url,
     title |-> p.title, url |-> p.url]

TodoFrom(t) == [id |-> t.id, user_id |-> t.user_id, title |-> t.title, completed |-> t.completed]

\* .into() on a wire struct
Into(T, s) ==
    CASE T = "Post" -> PostFrom(s)
      [] T = "Comment" -> CommentFrom(s)
      [] T = "Album" -> AlbumFrom(s)
      [] T = "Photo" -> PhotoFrom(s)
      [] T = "Todo" -> TodoFrom(s)
      [] T = "User" -> UserFrom(s)

\* a collect that reverses the order
IntoVecReversed(T, v) == [i \in 1..Len(v) |-> Into(T, v[Len(v) + 1 - i])]

\* v.into_iter().map(|x| x.into()).collect()
IntoVec(T, v) == [i \in 1..Len(v) |-> Into(T, v[i])]

(* --------------------------- query builder ---------------------------- *)

\* q.join(sep)
RECURSIVE Join(_, _)
Join(q, sep) ==
    IF Len(q) = 0 THEN ""
    ELSE IF Len(q) = 1 THEN q[1]
    ELSE q[1] \o sep \o Join(Tail(q), sep)

\* a query builder that pushes the second filter before the id
FilterQuerySwapped(id, name2, second) ==
    LET q0 == <<>>
        q1 == IF second.some THEN Append(q0, name2 \o "=" \o second.x) ELSE q0
        q2 == IF id.some THEN Append(q1, "id=" \o ToString(id.x)) ELSE q1
    IN  IF Len(q2) = 0 THEN "" ELSE "?" \o Join(q2, "&")

\* the q vector of get_comments / get_albums / get_photos / get_todos /
\* get_users and the query string built from it; second is the formatted
\* value of the second filter
FilterQuery(id, name2, second) ==
    LET q0 == <<>>
        q1 == IF id.some THEN Append(q0, "id=" \o ToString(id.x)) ELSE q0
        q2 == IF second.some THEN Append(q1, name2 \o "=" \o second.x) ELSE q1
    IN  IF Len(q2) = 0 THEN "" ELSE "?" \o Join(q2, "&")

\* format!("{v}") of an Option<u64>
Display(opt) == IF opt.some THEN Some(ToString(opt.x)) ELSE None

(* ------------------------------ endpoints ----------------------------- *)

ListFiltered == {"get_comments", "get_albums", "get_photos", "get_todos", "get_users"}
ListEndpoints == ListFiltered \cup {"get_posts"}
SingleEndpoints == {"get_post", "get_comment", "get_album", "get_photo", "get_todo", "get_user"}
RelEndpoints == {"get_post_comments", "get_album_photos"}
Endpoints == ListEndpoints \cup SingleEndpoints \cup RelEndpoints

\* the wire struct fetch_json is instantiated with
EntityOf(e) ==
    CASE e \in {"get_posts", "get_post"} -> "Post"
      [] e \in {"get_post_comments", "get_comments", "get_comment"} -> "Comment"
      [] e \in {"get_albums", "get_album"} -> "Album"
      [] e \in {"get_album_photos", "get_photos", "get_photo"} -> "Photo"
      [] e \in {"get_todos", "get_todo"} -> "Todo"
      [] e \in {"get_users", "get_user"} -> "User"

\* TRUE when fetch_json is instantiated with Vec<...>
IsVec(e) == e \notin SingleEndpoints

\* the path each endpoint hands to fetch_json
PathOf(e, a1, a2) ==
    CASE e = "get_posts" -> "/posts?userId=" \o ToString(a1.x)
      [] e = "get_post" -> "/posts/" \o ToString(a1.x)
      [] e = "get_post_comments" -> "/posts/" \o ToString(a1.x) \o "/comments"
      [] e = "get_comments" -> "/comments" \o FilterQuery(a1, "postId", Display(a2))
      [] e = "get_comment" -> "/comments/" \o ToString(a1.x)
      [] e = "get_albums" -> "/albums" \o FilterQuery(a1, "userId", Display(a2))
      [] e = "get_album" -> "/albums/" \o ToString(a1.x)
      [] e = "get_album_photos" -> "/albums/" \o ToString(a1.x) \o "/photos"
      [] e = "get_photos" -> "/photos" \o FilterQuery(a1, "albumId", Display(a2))
      [] e = "get_photo" -> "/photos/" \o ToString(a1.x)
      [] e = "get_todos" -> "/todos" \o FilterQuery(a1, "userId", Display(a2))
      [] e = "get_todo" -> "/todos/" \o ToString(a1.x)
      [] e = "get_users" -> "/users" \o FilterQuery(a1, "email", a2)
      [] e = "get_user" -> "/users/" \o ToString(a1.x)

NotFoundError == [message |-> "Not found"]

\* what the endpoint makes of fetch_json's Result: unwrap_or_default for the
\* list endpoints, map / map_err for the others
EndpointResult(e, fetched) ==
    IF e \in ListEndpoints
    THEN [tag |-> "vec",
          val |-> IntoVec(EntityOf(e), IF fetched.ok THEN fetched.v ELSE <<>>)]
    ELSE IF ~fetched.ok THEN [tag |-> "err", val |-> NotFoundError]
    ELSE IF e \in RelEndpoints
         THEN [tag |-> "ok", val |-> IntoVec(EntityOf(e), fetched.v)]
         ELSE [tag |-> "ok", val |-> Into(EntityOf(e), fetched.v)]

(* ------------------------ callers and the host ------------------------ *)

\* email filters a caller passes; the second is not a valid query component
Emails == {"e@x.io", "a b"}
UnsafeEmails == {"a b"}

OptIds == {None} \cup {Some(i) : i \in Ids}
OptEmails == {None} \cup {Some(m) : m \in Emails}

\* the argument pairs an endpoint can be called with
ArgsOf(e) ==
    IF e = "get_users" THEN OptIds \X OptEmails
    ELSE IF e \in ListFiltered THEN OptIds \X OptIds
    ELSE {<<Some(i), None>> : i \in Ids}

\* paths the host's set_path_with_query rejects as not a syntactically
\* valid path-and-query
MalformedPaths ==
    {"/users?email=" \o m : m \in UnsafeEmails}
        \cup {"/users?id=" \o ToString(i) \o "&email=" \o m : i \in Ids, m \in UnsafeEmails}

SetPathWithQuery(req, path) ==
    IF path \in MalformedPaths THEN Err ELSE Ok([req EXCEPT !.path = Some(path)])

\* OutgoingRequest::new(Fields::new()) followed by the three setters whose
\* arguments are constants the host accepts
OutgoingRequestNew ==
    [method |-> "GET", scheme |-> "https", authority |-> "jsonplaceholder.typicode.com",
     path |-> None, bodyTaken |-> FALSE]

\* request.body() on a request whose body was given away before
RequestBodyGone(req) == Err

\* request.body(): the outgoing body can be taken once
RequestBody(req) ==
    IF req.bodyTaken THEN Err ELSE Ok([req EXCEPT !.bodyTaken = TRUE])

Statuses == {200, 201, 404}

(* ------------------------- upstream answers --------------------------- *)

PostWire(i, u) ==
    JObj([id |-> JNum(i), userId |-> JNum(u), title |-> JStr("t"), body |-> JStr("b")])

CommentWire(i, p) ==
    JObj([id |-> JNum(i), postId |-> JNum(p), name |-> JStr("n"), email |-> JStr("e"),
          body |-> JStr("b")])

AlbumWire(i, u) == JObj([id |-> JNum(i), userId |-> JNum(u), title |-> JStr("t")])

PhotoWire(i, a) ==
    JObj([id |-> JNum(i), albumId |-> JNum(a), title |-> JStr("t"), url |-> JStr("u"),
          thumbnailUrl |-> JStr("tu")])

TodoWire(i, u, c) ==
    JObj([id |-> JNum(i), userId |-> JNum(u), title |-> JStr("t"), completed |-> JBool(c)])

GeoWire == JObj([lat |-> JStr("-37.3"), lng |-> JStr("81.1")])

AddressWire ==
    JObj([street |-> JStr("st"), suite |-> JStr("su"), city |-> JStr("ci"),
          zipcode |-> JStr("zi"), geo |-> GeoWire])

CompanyWire == JObj([name |-> JStr("cn"), catchPhrase |-> JStr("cp"), bs |-> JStr("cb")])

UserWire(i) ==
    JObj([id |-> JNum(i), name |-> JStr("n"), username |-> JStr("un"), email |-> JStr("e"),
          phone |-> JStr("p"), website |-> JStr("w"),
          company |-> CompanyWire, address |-> AddressWire])

\* an object with one more field than the wire schema asks for
WithExtra(o) ==
    JObj([k \in DOMAIN o.f \cup {"extra"} |-> IF k = "extra" THEN JStr("x") ELSE o.f[k]])

Sample(T) ==
    CASE T = "Post" -> PostWire(1, 2)
      [] T = "Comment" -> CommentWire(1, 2)
      [] T = "Album" -> AlbumWire(1, 2)
      [] T = "Photo" -> PhotoWire(1, 2)
      [] T = "Todo" -> TodoWire(1, 2, TRUE)
      [] T = "User" -> UserWire(1)

\* the well-formed wire objects of an entity family
WellFormed(T) ==
    {WithExtra(Sample(T))} \cup
    (CASE T = "Post" -> {PostWire(i, MaxId) : i \in Ids}
       [] T = "Comment" -> {CommentWire(i, MaxId) : i \in Ids}
       [] T = "Album" -> {AlbumWire(i, MaxId) : i \in Ids}
       [] T = "Photo" -> {PhotoWire(i, MaxId) : i \in Ids}
       [] T = "Todo" -> {TodoWire(i, MaxId, i = 1) : i \in Ids}
       [] T = "User" -> {UserWire(i) : i \in Ids})

Without(o, k) == JObj([n \in DOMAIN o.f \ {k} |-> o.f[n]])
Retyped(o, k, j) == JObj([n \in DOMAIN o.f |-> IF n = k THEN j ELSE o.f[n]])

\* the sample object under the domain model's field names instead of the
\* wire names
DomainNamed(T) ==
    CASE T = "Post" -> JObj([id |-> JNum(1), user_id |-> JNum(2), title |-> JStr("t"),
                             body |-> JStr("b")])
      [] T = "Comment" -> JObj([id |-> JNum(1), post_id |-> JNum(2), name |-> JStr("n"),
                                email |-> JStr("e"), body |-> JStr("b")])
      [] T = "Album" -> JObj([id |-> JNum(1), user_id |-> JNum(2), title |-> JStr("t")])
      [] T = "Photo" -> JObj([id |-> JNum(1), album_id |-> JNum(2), title |-> JStr("t"),
                              url |-> JStr("u"), thumbnail_url |-> JStr("tu")])
      [] T = "Todo" -> JObj([id |-> JNum(1), user_id |-> JNum(2), title |-> JStr("t"),
                             completed |-> JBool(TRUE)])
      [] T = "User" -> Retyped(UserWire(1), "company",
                               JObj([name |-> JStr("cn"), catch_phrase |-> JStr("cp"),
                                     bs |-> JStr("cb")]))

\* objects that do not match the wire schema: a field missing, mistyped,
\* out of range for u64, or named as in the domain model
Malformed(T) ==
    {Without(Sample(T), "id"), Retyped(Sample(T), "id", JStr("1")),
     Retyped(Sample(T), "id", JNum(-1)), DomainNamed(T)}

\* the arrays the upstream answers with: k objects whose ids count up
\* from a starting id, wrapping around after MaxId
Arrays(T) ==
    LET obj(i) == CHOOSE o \in WellFormed(T) :
                      o.f.id = JNum(i) /\ "extra" \notin DOMAIN o.f
    IN  {[i \in 1..k |-> obj(((first + i - 2) % MaxId) + 1)] : k \in 0..MaxItems, first \in Ids}
        \cup {<<WithExtra(Sample(T)), Sample(T)>>}

\* the tokens of a JSON array of the given values
RECURSIVE Commas(_)
Commas(items) ==
    IF Len(items) = 0 THEN <<>>
    ELSE IF Len(items) = 1 THEN <<Val(items[1])>>
    ELSE <<Val(items[1]), COMMA>> \o Commas(Tail(items))

ArrayToks(items) == <<LB>> \o Commas(items) \o <<RB>>

\* with and without trailing whitespace
Trail(b) == {b, b \o <<WS>>}

\* what the upstream may put in a response body for an entity family: one
\* well-formed object, an array of well-formed objects, or something else
Answers(T) ==
    UNION {{[kind |-> "object", body |-> b] : b \in Trail(<<Val(o)>>)} : o \in WellFormed(T)}
    \cup UNION {{[kind |-> "array", body |-> b] : b \in Trail(ArrayToks(items))}
                    : items \in Arrays(T)}
    \cup {[kind |-> "malformed", body |-> b] :
            b \in {<<>>, <<BAD>>, <<LB, Val(Sample(T))>>, <<Val(Sample(T)), BAD>>,
                   <<LB, Val(Sample(T)), COMMA, RB>>, <<Val(JStr("x"))>>}
                  \cup {<<Val(m)>> : m \in Malformed(T)}
                  \cup {ArrayToks(<<Sample(T), m>>) : m \in Malformed(T)}}

\* what future_response.get() yields after the block: nothing, an error
\* code, or a response
FutureOutcomes(T) ==
    {[kind |-> "none"], [kind |-> "error"]}
    \cup {[kind |-> "response", status |-> st, answer |-> a] : st \in Statuses, a \in Answers(T)}

EntityTypes == {"Post", "Comment", "Album", "Photo", "Todo", "User"}

OutcomesOf == [T \in EntityTypes |-> FutureOutcomes(T)]

AllOutcomes == UNION {OutcomesOf[T] : T \in EntityTypes}

(* ------------------------------- state -------------------------------- *)

VARIABLES
    pc,          \* "idle", "waiting" (blocked on the future), "draining", "done"
    ep,          \* the endpoint being served
    args,        \* its two arguments
    path,        \* the path it passed to fetch_json
    request,     \* the OutgoingRequest built by fetch_json
    sent,        \* calls of outgoing_handler::handle made by this call
    inflight,    \* requests handed to the host and not yet answered
    resp,        \* the incoming response, once there is one
    consumed,    \* incoming_response.consume() / stream() were called
    reads,       \* calls of input_stream.read
    rest,        \* body tokens the stream has not handed out yet
    bytes,       \* the bytes vector of the read loop
    readErr,     \* the stream returned last-operation-failed
    decoded,     \* what was passed to serde_json::from_slice
    failure,     \* the first failure of the pipeline in this call
    fetched,     \* the Result fetch_json returned
    result       \* what the endpoint returned

vars == <<pc, ep, args, path, request, sent, inflight, resp, consumed, reads, rest, bytes,
          readErr, decoded, failure, fetched, result>>

Init ==
    /\ pc = "idle"
    /\ ep = "get_posts"
    /\ args = <<None, None>>
    /\ path = None
    /\ request = None
    /\ sent = 0
    /\ inflight = 0
    /\ resp = None
    /\ consumed = FALSE
    /\ reads = 0
    /\ rest = <<>>
    /\ bytes = <<>>
    /\ readErr = FALSE
    /\ decoded = None
    /\ failure = "none"
    /\ fetched = None
    /\ result = [tag |-> "none"]

\* fetch_json returns r and the endpoint turns it into its result
Finish(r, why) ==
    /\ pc' = "done"
    /\ failure' = IF failure # "none" THEN failure ELSE why
    /\ fetched' = Some(r)
    /\ result' = EndpointResult(ep', r)

\* an endpoint is called: the path is built, the request constructed and
\* handed to outgoing_handler::handle
Call(e, a, handleOk) ==
    /\ pc = "idle"
    /\ ep' = e
    /\ args' = a
    /\ path' = Some(PathOf(e, a[1], a[2]))
    /\ UNCHANGED <<resp, consumed, reads, rest, bytes, readErr, decoded>>
    /\ LET r == SetPathWithQuery(OutgoingRequestNew, PathOf(e, a[1], a[2])) IN
       IF ~r.ok
       THEN /\ request' = Some(OutgoingRequestNew)
            /\ UNCHANGED <<sent, inflight>>
            /\ Finish(Err, "construct")
       ELSE LET b == RequestBody(r.v) IN
            IF ~b.ok
            THEN \* request.body().unwrap() panics
                 /\ request' = Some(r.v)
                 /\ pc' = "done"
                 /\ result' = [tag |-> "panic"]
                 /\ UNCHANGED <<sent, inflight, failure, fetched>>
            ELSE /\ request' = Some(b.v)
                 /\ sent' = sent + 1
                 /\ IF handleOk
                    THEN /\ pc' = "waiting"
                         /\ inflight' = inflight + 1
                         /\ UNCHANGED <<failure, fetched, result>>
                    ELSE /\ UNCHANGED inflight
                         /\ Finish(Err, "transport")

\* status check that lets every 2xx status through
StatusOkAny2xx(st) == st >= 200 /\ st < 300

\* status check of fetch_json
StatusOk(st) == st = 200

\* a response has arrived: wrong status, or the body stream is opened
Answered(o) ==
    /\ resp' = Some([status |-> o.status, answer |-> o.answer])
    /\ IF ~StatusOk(o.status)
       THEN /\ UNCHANGED <<consumed, rest>>
            /\ Finish(Err, "status")
       ELSE /\ consumed' = TRUE
            /\ rest' = o.answer.body
            /\ pc' = "draining"
            /\ UNCHANGED <<failure, fetched, result>>

\* Respond with a retry loop: a transport error submits the request again
RespondRetry(o) ==
    /\ pc = "waiting"
    /\ o \in OutcomesOf[EntityOf(ep)]
    /\ UNCHANGED <<ep, args, path, request, reads, bytes, readErr, decoded>>
    /\ IF o.kind # "response" /\ sent < 2
       THEN /\ sent' = sent + 1
            /\ UNCHANGED <<pc, inflight, resp, consumed, rest, failure, fetched, result>>
       ELSE /\ inflight' = inflight - 1
            /\ UNCHANGED sent
            /\ IF o.kind # "response"
               THEN /\ UNCHANGED <<resp, consumed, rest>>
                    /\ Finish(Err, "transport")
               ELSE Answered(o)

\* the future resolves: no response (an error), or a response
Respond(o) ==
    /\ pc = "waiting"
    /\ o \in OutcomesOf[EntityOf(ep)]
    /\ inflight' = inflight - 1
    /\ UNCHANGED <<ep, args, path, request, sent, reads, bytes, readErr, decoded>>
    /\ IF o.kind # "response"
       THEN /\ UNCHANGED <<resp, consumed, rest>>
            /\ Finish(Err, "transport")
       ELSE Answered(o)

\* the read loop is left: whatever is in bytes goes to the decoder
Break(why) ==
    LET d == FromSlice(EntityOf(ep), IsVec(ep), bytes) IN
    /\ decoded' = Some(bytes)
    /\ UNCHANGED bytes
    /\ IF why # "none"
       THEN Finish(d, why)
       ELSE Finish(d, IF d.ok THEN "none" ELSE "decode")

\* read(8192) returns a non-empty chunk
ReadChunk(k) ==
    /\ pc = "draining"
    /\ k \in 1..MaxChunk
    /\ k <= Len(rest)
    /\ reads' = reads + 1
    /\ bytes' = bytes \o SubSeq(rest, 1, k)
    /\ rest' = SubSeq(rest, k + 1, Len(rest))
    /\ UNCHANGED <<pc, ep, args, path, request, sent, inflight, resp, consumed, readErr, decoded,
                   failure, fetched, result>>

\* read(8192) returns an empty chunk, or the stream reports that it is
\* closed, at the end of the body
ReadEnd ==
    /\ pc = "draining"
    /\ Len(rest) = 0
    /\ reads' = reads + 1
    /\ UNCHANGED <<ep, args, path, request, sent, inflight, resp, consumed, rest, readErr>>
    /\ Break("none")

\* read(8192) returns Err(last-operation-failed)
ReadFailed ==
    /\ pc = "draining"
    /\ reads' = reads + 1
    /\ readErr' = TRUE
    /\ UNCHANGED <<ep, args, path, request, sent, inflight, resp, consumed, rest>>
    /\ Break("read")

\* the endpoint has returned; the next call starts from scratch
Return ==
    /\ pc = "done"
    /\ pc' = "idle"
    /\ ep' = "get_posts"
    /\ args' = <<None, None>>
    /\ path' = None
    /\ request' = None
    /\ sent' = 0
    /\ inflight' = 0
    /\ resp' = None
    /\ consumed' = FALSE
    /\ reads' = 0
    /\ rest' = <<>>
    /\ bytes' = <<>>
    /\ readErr' = FALSE
    /\ decoded' = None
    /\ failure' = "none"
    /\ fetched' = None
    /\ result' = [tag |-> "none"]

Next ==
    \/ \E e \in Endpoints : \E a \in ArgsOf(e) : \E h \in BOOLEAN : Call(e, a, h)
    \/ \E o \in AllOutcomes : Respond(o)
    \/ \E k \in 1..MaxChunk : ReadChunk(k)
    \/ ReadEnd
    \/ ReadFailed
    \/ Return

Spec == Init /\ [][Next]_vars

(* ------------------------------ properties ---------------------------- *)

\* the result an endpoint gives for a failed fetch
IsDefaultResult ==
    IF ep \in ListEndpoints
    THEN result.tag = "vec" /\ Len(result.val) = 0
    ELSE result.tag = "err" /\ result.val = [message |-> "Not found"]

\* C1: a list-returning endpoint whose fetch pipeline failed (request
\* construction, transport, status, body read or decode) returns an empty
\* sequence.
C1_ListFailureIsEmpty ==
    (pc = "done" /\ ep \in ListEndpoints /\ failure # "none")
        => (result.tag = "vec" /\ Len(result.val) = 0)

\* C2: a single-item endpoint whose fetch pipeline failed returns
\* NotFoundError with the message "Not found", whatever the cause.
C2_SingleFailureIsNotFound ==
    (pc = "done" /\ ep \in SingleEndpoints /\ failure # "none")
        => (result.tag = "err" /\ result.val = [message |-> "Not found"])

\* C3: a relationship endpoint returns NotFoundError on every failure, and
\* an empty sequence only when the upstream answered 200 with an empty array.
C3_RelFailureIsNotFound ==
    (pc = "done" /\ ep \in RelEndpoints)
        => /\ failure # "none" => result.tag = "err"
           /\ (result.tag = "ok" /\ Len(result.val) = 0)
                => /\ resp.some /\ resp.x.status = 200
                   /\ resp.x.answer.kind = "array"
                   /\ StripWs(resp.x.answer.body) = <<LB, RB>>

\* the base path and the name of the second filter, per filtered endpoint
FilterBase(e) ==
    CASE e = "get_comments" -> <<"/comments", "postId">>
      [] e = "get_albums" -> <<"/albums", "userId">>
      [] e = "get_photos" -> <<"/photos", "albumId">>
      [] e = "get_todos" -> <<"/todos", "userId">>
      [] e = "get_users" -> <<"/users", "email">>

Shown(e, v) == IF e = "get_users" THEN v ELSE ToString(v)

\* C4: the path a filtered list endpoint requests is its base path, then
\* "?" and one name=value term per present filter, id first, joined by "&";
\* no "?" when both filters are absent.
C4_FilterPath ==
    (pc # "idle" /\ ep \in ListFiltered) =>
        LET base == FilterBase(ep)[1]
            name2 == FilterBase(ep)[2]
            id == args[1]
            second == args[2]
        IN  /\ path.some
            /\ (~id.some /\ ~second.some) => path.x = base
            /\ (id.some /\ ~second.some) => path.x = base \o "?id=" \o ToString(id.x)
            /\ (~id.some /\ second.some)
                 => path.x = base \o "?" \o name2 \o "=" \o Shown(ep, second.x)
            /\ (id.some /\ second.some)
                 => path.x = base \o "?id=" \o ToString(id.x)
                                  \o "&" \o name2 \o "=" \o Shown(ep, second.x)

C4_Witness ==
    /\ pc = "waiting" /\ ep = "get_albums"
    /\ args[1].some /\ args[2].some /\ args[1].x # args[2].x

\* every field of the domain entity d is the wire field of the documented
\* name of the wire object w
FieldsMatch(T, w, d) ==
    CASE T = "Post" ->
           /\ DOMAIN d = {"id", "user_id", "title", "body"}
           /\ d.id = w.id.n /\ d.user_id = w.userId.n
           /\ d.title = w.title.s /\ d.body = w.body.s
      [] T = "Comment" ->
           /\ DOMAIN d = {"id", "post_id", "name", "email", "body"}
           /\ d.id = w.id.n /\ d.post_id = w.postId.n
           /\ d.name = w.name.s /\ d.email = w.email.s /\ d.body = w.body.s
      [] T = "Album" ->
           /\ DOMAIN d = {"id", "user_id", "title"}
           /\ d.id = w.id.n /\ d.user_id = w.userId.n /\ d.title = w.title.s
      [] T = "Photo" ->
           /\ DOMAIN d = {"id", "album_id", "title", "url", "thumbnail_url"}
           /\ d.id = w.id.n /\ d.album_id = w.albumId.n /\ d.title = w.title.s
           /\ d.url = w.url.s /\ d.thumbnail_url = w.thumbnailUrl.s
      [] T = "Todo" ->
           /\ DOMAIN d = {"id", "user_id", "title", "completed"}
           /\ d.id = w.id.n /\ d.user_id = w.userId.n
           /\ d.title = w.title.s /\ d.completed = w.completed.b
      [] T = "User" ->
           /\ DOMAIN d = {"id", "name", "username", "email", "phone", "website",
                          "company", "address"}
           /\ d.id = w.id.n /\ d.name = w.name.s /\ d.username = w.username.s
           /\ d.email = w.email.s /\ d.phone = w.phone.s /\ d.website = w.website.s
           /\ DOMAIN d.company = {"name", "catch_phrase", "bs"}
           /\ d.company.name = w.company.f.name.s
           /\ d.company.catch_phrase = w.company.f.catchPhrase.s
           /\ d.company.bs = w.company.f.bs.s
           /\ DOMAIN d.address = {"street", "suite", "city", "zipcode", "geo"}
           /\ d.address.street = w.address.f.street.s
           /\ d.address.suite = w.address.f.suite.s
           /\ d.address.city = w.address.f.city.s
           /\ d.address.zipcode = w.address.f.zipcode.s
           /\ DOMAIN d.address.geo = {"lat", "lng"}
           /\ d.address.geo.lat = w.address.f.geo.f.lat.s
           /\ d.address.geo.lng = w.address.f.geo.f.lng.s

\* the response came with status 200 and its body was read without error
Delivered == resp.some /\ resp.x.status = 200 /\ ~readErr

\* C5: a single-item endpoint answered with status 200 and one well-formed
\* wire object returns the entity whose fields are the wire fields of the
\* documented names, unchanged.
C5_SingleMapsFields ==
    (pc = "done" /\ ep \in SingleEndpoints /\ Delivered /\ resp.x.answer.kind = "object")
        => /\ result.tag = "ok"
           /\ FieldsMatch(EntityOf(ep), resp.x.answer.body[1].v.f, result.val)

C5_Witness ==
    /\ pc = "done" /\ ep = "get_post" /\ Delivered
    /\ result.tag = "ok" /\ result.val.id # result.val.user_id

\* the wire objects of a body, in upstream order
ItemsOf(body) == SelectSeq(body, LAMBDA x : x.t = "val")

\* C6: a collection endpoint answered with status 200 and an array of N
\* well-formed wire objects returns exactly N entities, the i-th being the
\* mapping of the i-th wire object.
C6_CollectionKeepsOrder ==
    (pc = "done" /\ IsVec(ep) /\ Delivered /\ resp.x.answer.kind = "array")
        => LET items == ItemsOf(resp.x.answer.body) IN
           /\ result.tag = IF ep \in ListEndpoints THEN "vec" ELSE "ok"
           /\ Len(result.val) = Len(items)
           /\ \A i \in 1..Len(items) :
                 FieldsMatch(EntityOf(ep), items[i].v.f, result.val[i])

C6_Witness ==
    /\ pc = "done" /\ ep = "get_todos" /\ Delivered
    /\ result.tag = "vec" /\ Len(result.val) = MaxItems
    /\ result.val[1].id # result.val[2].id

\* C7: a read error while draining makes fetch_json fail, and the bytes read
\* before it are not passed to the JSON decoder.
C7_ReadErrorFailsFetch ==
    readErr => /\ fetched.some /\ ~fetched.x.ok
               /\ Len(bytes) > 0 => ~decoded.some

\* C8 as stated: every call submits exactly one request, never two in flight.
C8_ExactlyOneRequest ==
    /\ inflight <= 1
    /\ pc = "done" => sent = 1

\* C8: every call submits at most one request and has at most one in
\* flight; a finished call has submitted exactly one unless request
\* construction failed, and then it has submitted none.
C8_AtMostOneRequest ==
    /\ sent <= 1
    /\ inflight <= 1
    /\ pc \in {"waiting", "draining"} => sent = 1
    /\ pc = "done" => (sent = 0 <=> failure = "construct")

C8_Witness == pc = "done" /\ failure = "transport" /\ sent = 1 /\ ~resp.some /\ inflight = 0

\* C9: with a status other than 200 the body is never touched: no stream is
\* opened, no read is issued, nothing is decoded, and the call returns its
\* failure result whatever the body is.
C9_Non200NoBody ==
    (resp.some /\ resp.x.status # 200)
        => /\ ~consumed /\ reads = 0 /\ Len(bytes) = 0 /\ ~decoded.some
           /\ pc = "done" /\ fetched.some /\ ~fetched.x.ok
           /\ IsDefaultResult

C9_Witness ==
    /\ pc = "done" /\ resp.some /\ resp.x.status = 201
    /\ resp.x.answer.kind = "object" /\ ep = "get_album"

\* C10: a call never panics, and a finished call has returned one of the
\* results its signature declares.
C10_NoPanic ==
    /\ result.tag # "panic"
    /\ pc = "done" => result.tag \in (IF ep \in ListEndpoints THEN {"vec"} ELSE {"ok", "err"})

C10_Witness ==
    /\ pc = "done" /\ failure = "decode" /\ result.tag = "err"
    /\ request.some /\ request.x.bodyTaken

====
